---------------------------- MODULE Spec2Model ----------------------------
(***************************************************************************)
(* A model of streamlit_app.py: the audit record lifecycle of the ISO      *)
(* 27001 / 27002 audit app.  load_audit_data (schema migration),           *)
(* conduct_audit (reconciliation with a prior log), generate_report and    *)
(* save_audit_log, and main, which runs them in sequence.                  *)
(*                                                                         *)
(* Python strings are TLA+ strings.  A pandas cell is a tagged value       *)
(* [t, v]: a string, NaN (an empty or NA field as read_csv reads it) or a  *)
(* number (a field of a column that read_csv infers to be numeric).        *)
(***************************************************************************)
EXTENDS Integers, Sequences, FiniteSets, TLC

VARIABLES
    arg,        \* the arguments of the function under test (pure-function specifications)
    ret,        \* what that function returned or raised
    clock,      \* seconds elapsed on the wall clock, datetime.now()
    disk,       \* the files under AUDIT_LOG_DIR: path -> content
    os_name,    \* the platform os.rename runs on
    gen,        \* history: the number of files save_audit_log has written
    calls,      \* history: the number of calls of save_audit_log
    session     \* what the last run of main() did

vars == <<arg, ret, clock, disk, os_name, gen, calls, session>>

Range(s) == {s[i] : i \in DOMAIN s}

None == [t |-> "none", v |-> ""]

(***************************************************************************)
(* Configuration and data                                                  *)
(***************************************************************************)
AUDIT_LOG_DIR == "audit_logs"

expected_columns ==
    <<"Organization", "Standard", "Control ID", "Control Name", "Compliance",
      "Risk Level", "Evidence/Remarks", "Remediation Plan", "Auditor">>

\* df.rename(columns=column_mapping): a column named in the mapping takes the
\* mapped name, any other column keeps its name.
column_mapping(c) ==
    CASE c = "Organization" -> "Organization"
      [] c = "Standard" -> "Standard"
      [] c = "Control ID" -> "Control ID"
      [] c = "Control Name" -> "Control Name"
      [] c = "Compliance" -> "Compliance"
      [] c = "Evidence/Remarks" -> "Evidence/Remarks"
      [] c = "Auditor" -> "Auditor"
      [] OTHER -> c

(***************************************************************************)
(* pandas cells and pd.read_csv                                            *)
(***************************************************************************)
Str(s) == [t |-> "str", v |-> s]
Num(s) == [t |-> "num", v |-> s]
NaN == [t |-> "nan", v |-> ""]

\* The fields read_csv reads as NaN (its default na_values), as far as the
\* inputs of this model contain them.
NaValues == {"", "N/A", "NA", "NaN", "nan", "null", "NULL", "None", "n/a"}

DigitChars == {"0", "1", "2", "3", "4", "5", "6", "7", "8", "9"}

\* A field that read_csv can read as a number: digits with at most one ".".
IsNumeric(s) ==
    /\ \E i \in 1..Len(s) : SubSeq(s, i, i) \in DigitChars
    /\ \A i \in 1..Len(s) : SubSeq(s, i, i) \in DigitChars \cup {"."}
    /\ Cardinality({i \in 1..Len(s) : SubSeq(s, i, i) = "."}) <= 1

\* A csv file: a header line and data lines, each a sequence of fields, or
\* text that read_csv cannot tokenize (malformed).  gen is history: which
\* write produced the file (0: not written by this program).
CsvFile(header, lines, g) ==
    [malformed |-> FALSE, header |-> header, lines |-> lines, gen |-> g]

Garbage == [malformed |-> TRUE, header |-> <<>>, lines |-> <<>>, gen |-> 0]

\* The field of line `line` under the k-th column; a short line is padded.
Field(line, k) == IF k <= Len(line) THEN line[k] ELSE ""

\* read_csv's dtype inference: a column is numeric when every field of it
\* that is not NA is a number, and there is one.
ColumnIsNumeric(file, k) ==
    /\ \E i \in DOMAIN file.lines : Field(file.lines[i], k) \notin NaValues
    /\ \A i \in DOMAIN file.lines :
          Field(file.lines[i], k) \in NaValues \/ IsNumeric(Field(file.lines[i], k))

ParseCell(file, i, k) ==
    LET s == Field(file.lines[i], k) IN
    IF s \in NaValues THEN NaN
    ELSE IF ColumnIsNumeric(file, k) THEN Num(s)
    ELSE Str(s)

IndexOf(seq, x) == CHOOSE k \in DOMAIN seq : seq[k] = x

\* pd.read_csv on a file that parses: a DataFrame, [columns, rows], each row a
\* function from the column names to cells.
read_csv(file) ==
    [columns |-> file.header,
     rows |-> [i \in DOMAIN file.lines |->
                 [c \in Range(file.header) |->
                     ParseCell(file, i, IndexOf(file.header, c))]]]

(***************************************************************************)
(* load_audit_data                                                         *)
(***************************************************************************)
\* df.rename(columns=column_mapping, inplace=True)
rename_columns(df) ==
    LET old == df.columns
        new == [k \in DOMAIN old |-> column_mapping(old[k])]
    IN [columns |-> new,
        rows |-> [i \in DOMAIN df.rows |->
                    [c \in Range(new) |-> df.rows[i][old[IndexOf(new, c)]]]]]

MutFillValue == Str("N/A")

\* df[col] = "" : the value a missing column is filled with
FillValue == Str("")

\* for col in expected_columns: if col not in df.columns: df[col] = ""
\* df = df[expected_columns]
add_missing_and_reorder(df) ==
    [columns |-> expected_columns,
     rows |-> [i \in DOMAIN df.rows |->
                 [c \in Range(expected_columns) |->
                     IF c \in Range(df.columns) THEN df.rows[i][c] ELSE FillValue]]]

\* The try block of load_audit_data on a table read_csv produced.
convert(df) ==
    IF \A k \in DOMAIN expected_columns : expected_columns[k] \in Range(df.columns)
    THEN df
    ELSE add_missing_and_reorder(rename_columns(df))

\* load_audit_data(filename) on a file system fs (path -> file): the data, or
\* None after ParserError or FileNotFoundError (each reported by st.error),
\* or an exception that leaves the function (EmptyDataError is not caught).
load_audit_data(fs, filename) ==
    IF filename \notin DOMAIN fs
    THEN [raised |-> "", st_error |-> "not found", value |-> None]
    ELSE IF fs[filename].malformed
    THEN [raised |-> "", st_error |-> "parse error", value |-> None]
    ELSE IF fs[filename].header = <<>>
    THEN [raised |-> "EmptyDataError", st_error |-> "", value |-> None]
    ELSE [raised |-> "", st_error |-> "",
          value |-> [t |-> "df", v |-> convert(read_csv(fs[filename]))]]


(***************************************************************************)
(* Inputs: csv files                                                       *)
(***************************************************************************)
MaxRows == 2

EmptyDisk == [p \in {} |-> Garbage]

WriteFile(fs, path, file) ==
    [p \in DOMAIN fs \cup {path} |-> IF p = path THEN file ELSE fs[p]]

RemoveFile(fs, path) == [p \in DOMAIN fs \ {path} |-> fs[p]]

Reverse(s) == [k \in DOMAIN s |-> s[Len(s) + 1 - k]]

\* Three data lines by column: an answered control, a line with empty and NA
\* fields and a numeric control id, and a line whose compliance is no option.
RowTemplates ==
    <<[c \in Range(expected_columns) \cup {"Notes"} |->
         CASE c = "Organization" -> "Acme" [] c = "Standard" -> "ISO 27001"
           [] c = "Control ID" -> "A.5.1" [] c = "Control Name" -> "Policies"
           [] c = "Compliance" -> "No" [] c = "Risk Level" -> "High"
           [] c = "Evidence/Remarks" -> "doc" [] c = "Remediation Plan" -> "plan"
           [] c = "Auditor" -> "alice" [] OTHER -> "n1"],
      [c \in Range(expected_columns) \cup {"Notes"} |->
         CASE c = "Organization" -> "Acme" [] c = "Standard" -> "ISO 27002"
           [] c = "Control ID" -> "5.1" [] c = "Control Name" -> "Policies"
           [] c = "Compliance" -> "" [] c = "Risk Level" -> ""
           [] c = "Evidence/Remarks" -> "" [] c = "Remediation Plan" -> ""
           [] c = "Auditor" -> "N/A" [] OTHER -> ""],
      [c \in Range(expected_columns) \cup {"Notes"} |->
         CASE c = "Organization" -> "Other" [] c = "Standard" -> "ISO 27001"
           [] c = "Control ID" -> "A.5.2" [] c = "Control Name" -> "Roles"
           [] c = "Compliance" -> "Maybe" [] c = "Risk Level" -> "Low"
           [] c = "Evidence/Remarks" -> "7" [] c = "Remediation Plan" -> ""
           [] c = "Auditor" -> "bob" [] OTHER -> "n3"]>>

\* Headers: any subset of the canonical columns, in canonical or in reverse
\* order, with or without a legacy column in front.
Headers ==
    { (IF legacy THEN <<"Notes">> ELSE <<>>) \o
      (LET In(c) == c \in S
           h == SelectSeq(expected_columns, In)
       IN IF rev THEN Reverse(h) ELSE h) :
      S \in SUBSET Range(expected_columns), rev \in BOOLEAN, legacy \in BOOLEAN }

TemplateSeqs == UNION {[1..n -> DOMAIN RowTemplates] : n \in 0..MaxRows}

CsvOf(header, ts) ==
    CsvFile(header, [i \in DOMAIN ts |-> [k \in DOMAIN header |-> RowTemplates[ts[i]][header[k]]]], 0)

InputFiles == {CsvOf(h, ts) : h \in Headers, ts \in TemplateSeqs} \cup {Garbage}

(***************************************************************************)
(* SpecMigrate: load_audit_data applied to any input file                  *)
(***************************************************************************)
Idle == [op |-> "none"]

InitMigrate ==
    /\ arg = "audit_logs/prior.csv"
    /\ disk \in {WriteFile(EmptyDisk, arg, f) : f \in InputFiles} \cup {EmptyDisk}
    /\ ret = Idle
    /\ clock = 0
    /\ os_name = "posix"
    /\ gen = 0
    /\ calls = 0
    /\ session = Idle

Load ==
    /\ ret = Idle
    /\ ret' = [op |-> "load_audit_data", out |-> load_audit_data(disk, arg)]
    /\ UNCHANGED <<arg, clock, disk, os_name, gen, calls, session>>

NextMigrate == Load

SpecMigrate == InitMigrate /\ [][NextMigrate]_vars

\* The file load_audit_data was given parses into a table.
Parseable == arg \in DOMAIN disk /\ ~disk[arg].malformed /\ disk[arg].header # <<>>

MissingColumns(df) == {c \in Range(expected_columns) : c \notin Range(df.columns)}

\* C10: migrating a parseable table that lacks a canonical column keeps the
\* number of rows, yields every canonical column in canonical order, fills
\* each missing column with the empty string in every row and keeps the
\* values of each canonical column that was present; a table that has all
\* canonical columns is returned unchanged.
C10_Migrate ==
    (ret.op = "load_audit_data" /\ Parseable) =>
        LET raw == read_csv(disk[arg])
            out == ret.out.value
        IN /\ ret.out.raised = "" /\ ret.out.st_error = "" /\ out.t = "df"
           /\ IF MissingColumns(raw) = {}
              THEN out.v = raw
              ELSE /\ Len(out.v.rows) = Len(raw.rows)
                   /\ out.v.columns = expected_columns
                   /\ \A i \in DOMAIN raw.rows : \A c \in Range(expected_columns) :
                         out.v.rows[i][c] =
                            IF c \in MissingColumns(raw) THEN Str("") ELSE raw.rows[i][c]

\* C10 witness: a table with rows, a missing column and a present one, migrated.
C10_Witness ==
    /\ ret.op = "load_audit_data" /\ Parseable
    /\ Len(disk[arg].lines) = MaxRows
    /\ "Risk Level" \in MissingColumns(read_csv(disk[arg]))
    /\ "Compliance" \notin MissingColumns(read_csv(disk[arg]))
    /\ ret.out.value.v.rows[1]["Compliance"] = Str("No")

(***************************************************************************)
(* generate_report                                                         *)
(***************************************************************************)
\* pd.DataFrame(audit_data) of a list of dicts of strings; of an empty list,
\* a frame with no rows and no columns.
DataFrame(audit_data) ==
    IF audit_data = <<>>
    THEN [columns |-> <<>>, rows |-> <<>>]
    ELSE [columns |-> expected_columns,
          rows |-> [i \in DOMAIN audit_data |->
                      [c \in Range(expected_columns) |-> Str(audit_data[i][c])]]]

\* df.empty
df_empty(df) == df.rows = <<>> \/ df.columns = <<>>

\* df[df['Compliance'] == value]: the rows, in order
RECURSIVE rows_where_compliance(_, _)
rows_where_compliance(rows, value) ==
    IF rows = <<>> THEN <<>>
    ELSE (IF Head(rows)["Compliance"] = Str(value) THEN <<Head(rows)>> ELSE <<>>)
         \o rows_where_compliance(Tail(rows), value)

Mut_implemented_count(df) ==
    Len(rows_where_compliance(df.rows, "Yes"))
    + Len(rows_where_compliance(df.rows, "Partially Implemented"))

\* implemented_count = df[df['Compliance'] == 'Yes'].shape[0]
implemented_count(df) == Len(rows_where_compliance(df.rows, "Yes"))

Mut_gap_rows(df) ==
    LET NotYes(r) == r["Compliance"] # Str("Yes") IN SelectSeq(df.rows, NotYes)

\* gaps = df[df['Compliance'] == 'No']
gap_rows(df) == rows_where_compliance(df.rows, "No")

\* (implemented_count / total_controls) * 100 if total_controls > 0 else 0, as
\* the number of hundredths that "{:.2f}" prints.  A float division rounded
\* to the nearest hundredth; no tie arises while total_controls < 32.
compliance_percentage(implemented, total_controls) ==
    IF total_controls > 0
    THEN (20000 * implemented + total_controls) \div (2 * total_controls)
    ELSE 0

\* df['Compliance'].value_counts(): each value present with its count
value_counts(df) ==
    [x \in {df.rows[i]["Compliance"] : i \in DOMAIN df.rows} |->
        Cardinality({i \in DOMAIN df.rows : df.rows[i]["Compliance"] = x})]

\* generate_report: what it writes to the page.  overall_compliance and
\* gap_lines are the lines written, none after the early return.
generate_report(audit_data, organization_name) ==
    LET df == DataFrame(audit_data) IN
    IF df_empty(df)
    THEN [organization |-> organization_name, st_warning |-> TRUE,
          dataframe |-> <<>>, pie |-> <<>>, overall_compliance |-> <<>>,
          gaps |-> <<>>, gap_lines |-> <<>>, no_gaps_found |-> FALSE]
    ELSE [organization |-> organization_name, st_warning |-> FALSE,
          dataframe |-> <<df>>, pie |-> <<value_counts(df)>>,
          overall_compliance |->
              <<compliance_percentage(implemented_count(df), Len(df.rows))>>,
          gaps |-> gap_rows(df),
          gap_lines |-> [k \in DOMAIN gap_rows(df) |->
                           <<gap_rows(df)[k]["Standard"], gap_rows(df)[k]["Control ID"],
                             gap_rows(df)[k]["Control Name"]>>],
          no_gaps_found |-> gap_rows(df) = <<>>]

(***************************************************************************)
(* SpecReport: generate_report applied to any record sequence              *)
(***************************************************************************)
MaxRecords == 3

ComplianceOptions == <<"Yes", "No", "Partially Implemented">>

RiskOptions == <<"Low", "Medium", "High">>

\* The i-th record of an input sequence, with the given compliance.
InputRecord(i, compliance) ==
    [c \in Range(expected_columns) |->
        CASE c = "Organization" -> "Acme" [] c = "Standard" -> "ISO 27001"
          [] c = "Control ID" -> <<"A.5.1", "A.5.2", "A.5.3", "A.5.4", "A.5.5">>[i]
          [] c = "Control Name" -> "Name"
          [] c = "Compliance" -> compliance [] c = "Risk Level" -> "Low"
          [] c = "Evidence/Remarks" -> "" [] c = "Remediation Plan" -> ""
          [] OTHER -> "N/A"]

InputRecordSeqs ==
    UNION {{[i \in 1..n |-> InputRecord(i, cs[i])] :
               cs \in [1..n -> Range(ComplianceOptions) \cup {""}]} : n \in 0..MaxRecords}

InitReport ==
    /\ arg \in InputRecordSeqs
    /\ ret = Idle
    /\ clock = 0
    /\ disk = EmptyDisk
    /\ os_name = "posix"
    /\ gen = 0
    /\ calls = 0
    /\ session = Idle

Report ==
    /\ ret = Idle
    /\ ret' = [op |-> "generate_report", out |-> generate_report(arg, "Acme")]
    /\ UNCHANGED <<arg, clock, disk, os_name, gen, calls, session>>

NextReport == Report

SpecReport == InitReport /\ [][NextReport]_vars

YesCount(records) == Cardinality({i \in DOMAIN records : records[i]["Compliance"] = "Yes"})

\* h hundredths is 100 * yes / total to the nearest hundredth.
IsPercentage(h, yes, total) ==
    /\ 2 * (h * total - 10000 * yes) <= total
    /\ 2 * (10000 * yes - h * total) <= total

\* C8 as stated: the percentage is 100 * Yes-count / total for a non-empty
\* record sequence, and 0 is produced for the empty one.
C8_Original ==
    ret.op = "generate_report" =>
        /\ Len(ret.out.overall_compliance) = 1
        /\ IF arg = <<>>
           THEN ret.out.overall_compliance[1] = 0
           ELSE IsPercentage(ret.out.overall_compliance[1], YesCount(arg), Len(arg))

\* C8 amended: the percentage is 100 * Yes-count / total for a non-empty
\* record sequence; for the empty one the report warns and returns before
\* any percentage is computed: none is produced, and nothing faults.
C8_Percentage ==
    ret.op = "generate_report" =>
        IF arg = <<>>
        THEN ret.out.st_warning /\ ret.out.overall_compliance = <<>>
        ELSE /\ ~ret.out.st_warning
             /\ Len(ret.out.overall_compliance) = 1
             /\ IsPercentage(ret.out.overall_compliance[1], YesCount(arg), Len(arg))

\* C8 witness: a report of three records, one of them Yes (33.33).
C8_Witness ==
    /\ ret.op = "generate_report"
    /\ Len(arg) = 3
    /\ YesCount(arg) = 1
    /\ ret.out.overall_compliance = <<3333>>

(***************************************************************************)
(* conduct_audit                                                           *)
(***************************************************************************)
ISO_27001_CONTROLS ==
    <<<<"A.5.1", "Policies for information security", "Information security policies should be defined and approved by management.">>,
      <<"A.5.2", "Information security roles and responsibilities", "Information security roles and responsibilities should be defined and allocated.">>,
      <<"A.5.3", "Segregation of duties", "Conflicting duties and areas of responsibility should be segregated.">>,
      <<"A.5.4", "Contact with authorities", "Contact with relevant authorities should be maintained.">>,
      <<"A.5.5", "Contact with special interest groups", "Contact with special interest groups should be maintained.">>,
      <<"A.18.1", "Compliance with legal and contractual requirements", "All relevant statutory, regulatory and contractual requirements should be identified and documented.">>>>

ISO_27002_CONTROLS ==
    <<<<"5.1", "Policies for information security", "Information security policies should be defined and approved by management.">>,
      <<"5.2", "Information security roles and responsibilities", "Information security roles and responsibilities should be defined and allocated.">>,
      <<"5.3", "Segregation of duties", "Conflicting duties and areas of responsibility should be segregated.">>,
      <<"5.4", "Contact with authorities", "Contact with relevant authorities should be maintained.">>,
      <<"5.5", "Contact with special interest groups", "Contact with special interest groups should be maintained.">>,
      <<"18.1", "Compliance with legal and contractual requirements", "All relevant statutory, regulatory and contractual requirements should be identified and documented.">>>>

\* Python's truth value of a cell: an empty string and a zero are false, NaN
\* (a float that is not zero) is true.
Truthy(cell) ==
    CASE cell.t = "str" -> cell.v # ""
      [] cell.t = "num" -> cell.v \notin {"0", "0.0"}
      [] OTHER -> TRUE

\* str(value): the text a text_area shows for the value it is given
to_text(cell) == IF cell.t = "nan" THEN "nan" ELSE cell.v

\* loaded_data[(loaded_data['Control ID'] == control_id)
\*             & (loaded_data['Standard'] == standard_name)]: the row indices
matching_rows(loaded_data, control_id, standard_name) ==
    IF loaded_data.t # "df" THEN {}
    ELSE {i \in DOMAIN loaded_data.v.rows :
            /\ loaded_data.v.rows[i]["Control ID"] = Str(control_id)
            /\ loaded_data.v.rows[i]["Standard"] = Str(standard_name)}

Min(S) == CHOOSE x \in S : \A y \in S : x <= y

Max(S) == CHOOSE x \in S : \A y \in S : x >= y

Mut_iloc0(S) == Max(S)

\* matching_row.iloc[0]: the first of the matching rows
iloc0(S) == Min(S)

\* The defaults of one control's widgets: from the first matching row when
\* loaded_data is not None and a row matches.
widget_defaults(loaded_data, control_id, standard_name) ==
    LET m == matching_rows(loaded_data, control_id, standard_name) IN
    IF m = {}
    THEN [compliance |-> Str(""), risk_level |-> Str("Low"),
          evidence |-> Str(""), remediation |-> Str("")]
    ELSE LET row == loaded_data.v.rows[iloc0(m)] IN
         [compliance |-> row["Compliance"], risk_level |-> row["Risk Level"],
          evidence |-> row["Evidence/Remarks"], remediation |-> row["Remediation Plan"]]

\* options.index(default) if default else 0: the index, or 0 for ValueError
\* (indices are counted from 1 here).
option_index(options, default) ==
    IF ~Truthy(default) THEN 1
    ELSE IF default.t = "str" /\ default.v \in Range(options)
    THEN IndexOf(options, default.v)
    ELSE 0

\* What the user entered in one control's widgets: per widget, nothing or a value.
Untouched == [compliance |-> <<>>, risk_level |-> <<>>,
              evidence |-> <<>>, remediation_plan |-> <<>>]

\* A widget's value: the user's entry, or the default it was rendered with.
widget_value(entry, default) == IF entry = <<>> THEN default ELSE entry[1]

\* One pass of the loop body: the record appended, or ValueError.  choice is
\* what the user entered in this control's widgets, if anything.
audit_control(control, standard_name, organization_name, loaded_data, username, choice) ==
    LET d == widget_defaults(loaded_data, control[1], standard_name)
        ci == option_index(ComplianceOptions, d.compliance)
        ri == option_index(RiskOptions, d.risk_level)
    IN IF ci = 0 \/ ri = 0
       THEN [raised |-> "ValueError", record |-> <<>>]
       ELSE [raised |-> "",
             record |-> <<[c \in Range(expected_columns) |->
                CASE c = "Organization" -> organization_name
                  [] c = "Standard" -> standard_name
                  [] c = "Control ID" -> control[1]
                  [] c = "Control Name" -> control[2]
                  [] c = "Compliance" ->
                       widget_value(choice.compliance, ComplianceOptions[ci])
                  [] c = "Risk Level" ->
                       widget_value(choice.risk_level, RiskOptions[ri])
                  [] c = "Evidence/Remarks" ->
                       widget_value(choice.evidence, to_text(d.evidence))
                  [] c = "Remediation Plan" ->
                       widget_value(choice.remediation_plan, to_text(d.remediation))
                  [] OTHER -> username]>>]

\* conduct_audit: the audit data, one record per control in catalogue order,
\* or the ValueError that leaves the loop.
conduct_audit(controls_list, standard_name, organization_name, loaded_data, username, ui) ==
    LET each == [k \in DOMAIN controls_list |->
                    audit_control(controls_list[k], standard_name, organization_name,
                                  loaded_data, username, ui[k])]
    IN IF \E k \in DOMAIN each : each[k].raised # ""
       THEN [raised |-> "ValueError", audit_data |-> <<>>]
       ELSE [raised |-> "", audit_data |-> [k \in DOMAIN each |-> each[k].record[1]]]

(***************************************************************************)
(* SpecReconcile: conduct_audit applied to any catalogue and prior log     *)
(***************************************************************************)
MaxControls == 2

MaxPrior == 2

\* Data lines of a prior log, as <<Organization, Standard, Control ID,
\* Control Name, Compliance, Risk Level, Evidence/Remarks, Remediation Plan,
\* Auditor>>: a stale name and organization; a second line for the same
\* control with empty fields; a compliance that is no option; an empty risk
\* level; a numeric control id; a control id under the other standard.
PriorLines ==
    <<<<"OldOrg", "ISO 27001", "A.5.1", "Stale name", "No", "High", "doc", "plan", "alice">>,
      <<"Acme", "ISO 27001", "A.5.1", "Policies", "Partially Implemented", "Medium", "", "", "N/A">>,
      <<"Acme", "ISO 27001", "A.5.2", "Roles", "Maybe", "Low", "x", "y", "bob">>,
      <<"Acme", "ISO 27001", "A.5.2", "Roles", "Yes", "", "x", "", "bob">>,
      <<"Acme", "ISO 27002", "5.1", "Policies", "No", "Low", "7", "", "bob">>,
      <<"Acme", "ISO 27002", "A.5.1", "Policies", "No", "High", "other", "", "bob">>>>

\* The columns of a prior log: the canonical ones, or an older format that
\* lacks some of them.
PriorHeaders ==
    {expected_columns,
     LET In(c) == c \notin {"Risk Level", "Remediation Plan"} IN SelectSeq(expected_columns, In),
     LET In(c) == c \notin {"Compliance", "Evidence/Remarks"} IN SelectSeq(expected_columns, In)}

PriorFile(header, ls) ==
    CsvFile(header,
            [i \in DOMAIN ls |->
                [k \in DOMAIN header |-> PriorLines[ls[i]][IndexOf(expected_columns, header[k])]]],
            0)

PriorFiles ==
    {PriorFile(h, ls) : h \in PriorHeaders,
                        ls \in UNION {[1..n -> DOMAIN PriorLines] : n \in 0..MaxPrior}}

\* What load_audit_data hands to conduct_audit: None or a converted table.
PriorLogs ==
    {load_audit_data(WriteFile(EmptyDisk, "f", f), "f").value : f \in PriorFiles}
    \cup {load_audit_data(EmptyDisk, "f").value}

Catalogues ==
    {[controls_list |-> SubSeq(cat.controls, 1, n), standard_name |-> cat.standard] :
        cat \in {[controls |-> ISO_27001_CONTROLS, standard |-> "ISO 27001"],
                 [controls |-> ISO_27002_CONTROLS, standard |-> "ISO 27002"]},
        n \in 0..MaxControls}

InitReconcile ==
    /\ arg \in {[controls_list |-> cat.controls_list, standard_name |-> cat.standard_name,
                 organization_name |-> "Acme", loaded_data |-> prior, username |-> "N/A"] :
                    cat \in Catalogues, prior \in PriorLogs}
    /\ ret = Idle
    /\ clock = 0
    /\ disk = EmptyDisk
    /\ os_name = "posix"
    /\ gen = 0
    /\ calls = 0
    /\ session = Idle

Reconcile ==
    /\ ret = Idle
    /\ ret' = [op |-> "conduct_audit",
               out |-> conduct_audit(arg.controls_list, arg.standard_name,
                                     arg.organization_name, arg.loaded_data, arg.username,
                                     [k \in DOMAIN arg.controls_list |-> Untouched])]
    /\ UNCHANGED <<arg, clock, disk, os_name, gen, calls, session>>

NextReconcile == Reconcile

SpecReconcile == InitReconcile /\ [][NextReconcile]_vars

\* The rows of the prior log that are for control k of the catalogue.
PriorMatches(k) ==
    IF arg.loaded_data.t # "df" THEN {}
    ELSE {i \in DOMAIN arg.loaded_data.v.rows :
            /\ arg.loaded_data.v.rows[i]["Standard"] = Str(arg.standard_name)
            /\ arg.loaded_data.v.rows[i]["Control ID"] = Str(arg.controls_list[k][1])}

FirstMatch(k) == arg.loaded_data.v.rows[Min(PriorMatches(k))]

\* C6 as stated: for any prior log, reconciling a catalogue of N controls
\* completes with exactly N records, the i-th carrying the i-th control's id
\* and name, the given standard and organization, (standard, control id)
\* unique.
C6_Original ==
    ret.op = "conduct_audit" =>
        /\ ret.out.raised = ""
        /\ Len(ret.out.audit_data) = Len(arg.controls_list)
        /\ \A k \in DOMAIN ret.out.audit_data :
              /\ ret.out.audit_data[k]["Control ID"] = arg.controls_list[k][1]
              /\ ret.out.audit_data[k]["Control Name"] = arg.controls_list[k][2]
              /\ ret.out.audit_data[k]["Standard"] = arg.standard_name
              /\ ret.out.audit_data[k]["Organization"] = arg.organization_name
        /\ \A j, k \in DOMAIN ret.out.audit_data :
              (ret.out.audit_data[j]["Control ID"] = ret.out.audit_data[k]["Control ID"]
               /\ ret.out.audit_data[j]["Standard"] = ret.out.audit_data[k]["Standard"]) => j = k

ShownText(cell) == IF cell = NaN THEN "nan" ELSE cell.v

StartOfClock == [day |-> 1, hour |-> 23, minute |-> 59, second |-> 58]

\* The calendar days the bounded clock covers, as strftime("%Y%m%d") prints them.
Calendar == <<"20241231", "20250101", "20250102">>

SecondsOfDay(now) ==
    StartOfClock.hour * 3600 + StartOfClock.minute * 60 + StartOfClock.second + now

Digit(d) == SubSeq("0123456789", d + 1, d + 1)

\* "%02d"
Pad2(n) == Digit(n \div 10) \o Digit(n % 10)

\* now.strftime("%Y%m%d")
strftime_Ymd(now) == Calendar[StartOfClock.day + SecondsOfDay(now) \div 86400]

\* now.strftime("%H%M%S")
strftime_HMS(now) ==
    LET sod == SecondsOfDay(now) % 86400 IN
    Pad2(sod \div 3600) \o Pad2((sod % 3600) \div 60) \o Pad2(sod % 60)

(***************************************************************************)
(* save_audit_log                                                          *)
(***************************************************************************)
\* str.replace(old, new): every occurrence, left to right
RECURSIVE str_replace(_, _, _)
str_replace(s, old, new) ==
    IF Len(s) < Len(old) THEN s
    ELSE IF SubSeq(s, 1, Len(old)) = old
    THEN new \o str_replace(SubSeq(s, Len(old) + 1, Len(s)), old, new)
    ELSE SubSeq(s, 1, 1) \o str_replace(SubSeq(s, 2, Len(s)), old, new)

\* filename = f"{AUDIT_LOG_DIR}/{organization_name}_audit_{timestamp}.csv"
save_filename(organization_name, now) ==
    AUDIT_LOG_DIR \o "/" \o organization_name \o "_audit_"
        \o strftime_Ymd(now) \o "_" \o strftime_HMS(now) \o ".csv"

\* filename.replace(".csv", f"_v{datetime.now().strftime('%Y%m%d%H%M%S')}.csv")
backup_filename(filename, now) ==
    str_replace(filename, ".csv", "_v" \o strftime_Ymd(now) \o strftime_HMS(now) \o ".csv")

\* os.path.exists(filename)
path_exists(fs, filename) == filename \in DOMAIN fs

Mut_os_rename(fs, src, dst) == fs

\* os.rename(src, dst) when it succeeds: dst then holds what src held, and on
\* POSIX silently replaces a file that was at dst.
os_rename(fs, src, dst) == WriteFile(RemoveFile(fs, src), dst, fs[src])

\* Whether os.rename(src, dst) raises: the environment refuses it, or, on
\* Windows, dst exists.
rename_raises(fs, dst, os, rename_error) ==
    rename_error \/ (os = "nt" /\ dst \in DOMAIN fs)

\* df.to_csv(filename, index=False): the header line and one line per row
to_csv(df, g) ==
    CsvFile(df.columns,
            [i \in DOMAIN df.rows |->
                [k \in DOMAIN df.columns |->
                    LET cell == df.rows[i][df.columns[k]] IN
                    IF cell.t = "nan" THEN "" ELSE cell.v]],
            g)

Mut_rename_failed(fs, g, filename, old_filename) ==
    [disk |-> WriteFile(fs, filename, CsvFile(expected_columns, <<>>, g + 1)),
     gen |-> g + 1, raised |-> "", filename |-> filename,
     old_filename |-> old_filename, renamed |-> FALSE, write_attempted |-> TRUE]

\* The outcome of the call once os.rename has raised: the exception leaves
\* save_audit_log, nothing is written.
rename_failed(fs, g, filename, old_filename) ==
    [disk |-> fs, gen |-> g, raised |-> "OSError", filename |-> filename,
     old_filename |-> old_filename, renamed |-> FALSE, write_attempted |-> FALSE]

\* The write step: df.to_csv writes the file, or raises leaving the target
\* unopened (absent) or truncated.
write_step(fs, g, filename, old_filename, renamed, audit_data, write_error) ==
    IF write_error = ""
    THEN [disk |-> WriteFile(fs, filename, to_csv(DataFrame(audit_data), g + 1)),
          gen |-> g + 1, raised |-> "", filename |-> filename,
          old_filename |-> old_filename, renamed |-> renamed, write_attempted |-> TRUE]
    ELSE [disk |-> IF write_error = "truncated" THEN WriteFile(fs, filename, Garbage) ELSE fs,
          gen |-> g, raised |-> "OSError", filename |-> filename,
          old_filename |-> old_filename, renamed |-> renamed, write_attempted |-> TRUE]

\* save_audit_log(audit_data, organization_name) on file system fs at time
\* now.  env is what the environment does during the call: the clock at the
\* second datetime.now(), whether os.rename is refused, whether to_csv fails.
save_audit_log(fs, g, now, audit_data, organization_name, os, env) ==
    LET filename == save_filename(organization_name, now)
        old_filename == backup_filename(filename, env.now2)
    IN IF path_exists(fs, filename)
       THEN IF rename_raises(fs, old_filename, os, env.rename_error)
            THEN rename_failed(fs, g, filename, old_filename)
            ELSE write_step(os_rename(fs, filename, old_filename), g, filename,
                            old_filename, TRUE, audit_data, env.write_error)
       ELSE write_step(fs, g, filename, "", FALSE, audit_data, env.write_error)

(***************************************************************************)
(* SpecPersist: save_audit_log called again and again as the clock runs    *)
(***************************************************************************)
MaxTick == 2

MaxSaves == 3

Organizations == {"Acme", "B.csv"}

\* The working sets saved: one record, answered Yes or No.
SaveInputs == {<<InputRecord(1, c)>> : c \in {"Yes", "No"}}

\* What the environment can do during a call at time now: the clock at the
\* second datetime.now(), whether os.rename is refused, whether to_csv
\* fails.  Without a file at the target there is no rename and no second
\* reading of the clock.
Environments(now, collision) ==
    IF collision
    THEN [now2 : {n \in {now, now + 1} : n <= MaxTick}, rename_error : BOOLEAN,
          write_error : {"", "unopened", "truncated"}]
    ELSE [now2 : {now}, rename_error : {FALSE}, write_error : {"", "unopened", "truncated"}]

InitPersist ==
    /\ arg \in Organizations
    /\ ret = Idle
    /\ clock = 0
    /\ disk = EmptyDisk
    /\ os_name \in {"posix", "nt"}
    /\ gen = 0
    /\ calls = 0
    /\ session = Idle

Tick ==
    /\ clock < MaxTick
    /\ clock' = clock + 1
    /\ UNCHANGED <<arg, ret, disk, os_name, gen, calls, session>>

\* One call save_audit_log(audit_data, organization_name), whole.
Save ==
    /\ calls < MaxSaves
    /\ \E audit_data \in SaveInputs :
       \E env \in Environments(clock, save_filename(arg, clock) \in DOMAIN disk) :
          LET out == save_audit_log(disk, gen, clock, audit_data, arg, os_name, env)
          IN /\ ret' = [op |-> "save_audit_log", env |-> env, before |-> disk, out |-> out]
             /\ disk' = out.disk
             /\ gen' = out.gen
             /\ clock' = env.now2
    /\ calls' = calls + 1
    /\ UNCHANGED <<arg, os_name, session>>

NextPersist == Tick \/ Save

SpecPersist == InitPersist /\ [][NextPersist]_vars

\* The last call found a file at its target path.
Collided ==
    /\ ret.op = "save_audit_log"
    /\ ret.out.filename \in DOMAIN ret.before

\* The file that was at the target path when the last call began.
PriorFileAtTarget == ret.before[ret.out.filename]

\* C1: when a call finds the file an earlier call of the same second wrote
\* at its target path and succeeds, the earlier content is then under the
\* backup path, a path other than the target, and the target holds the new
\* content; whether the call succeeds or not, the earlier content is still
\* in some file.
C1_TwoSaves ==
    Collided =>
        /\ \E p \in DOMAIN disk : disk[p] = PriorFileAtTarget
        /\ ret.out.raised = "" =>
              /\ ret.out.old_filename # ret.out.filename
              /\ ret.out.old_filename \in DOMAIN disk
              /\ disk[ret.out.old_filename] = PriorFileAtTarget
              /\ ret.out.filename \in DOMAIN disk
              /\ disk[ret.out.filename].gen = gen
              /\ disk[ret.out.filename].gen # PriorFileAtTarget.gen

\* C1 witness: the second of two successful calls within one second.
C1_Witness ==
    /\ Collided /\ ret.out.raised = ""
    /\ calls = 2 /\ gen = 2 /\ clock = 0
    /\ Cardinality(DOMAIN disk) = 2
    /\ disk[ret.out.old_filename].gen = 1
    /\ disk[ret.out.filename].gen = 2

\* C2 as stated: after any sequence of calls, every snapshot written is
\* still stored in some file.
C2_Original ==
    \A g \in 1..gen : \E p \in DOMAIN disk : disk[p].gen = g

\* The rename step of the last call could not be done: the environment
\* refused it, or on Windows a file was at the backup path.
RenameRefused ==
    /\ Collided
    /\ ret.env.rename_error \/ (os_name = "nt" /\ ret.out.old_filename \in DOMAIN ret.before)

\* C3 as stated: when the call fails, the file that was at the target path
\* is still there with its content, and after a failed rename nothing is
\* written.
C3_Original ==
    (Collided /\ ret.out.raised # "") =>
        /\ ret.out.filename \in DOMAIN disk
        /\ disk[ret.out.filename] = PriorFileAtTarget
        /\ RenameRefused => disk = ret.before

\* C3 amended: when the rename step fails the call fails, nothing is written
\* and the files are as they were; when the write step fails after the
\* rename, the file that was at the target path is no longer there: its
\* content is kept under the backup path.
C3_FailedPersist ==
    /\ RenameRefused => (ret.out.raised # "" /\ disk = ret.before /\ gen = ret.out.gen)
    /\ (Collided /\ ~RenameRefused /\ ret.out.raised # "") =>
          /\ ret.out.old_filename \in DOMAIN disk
          /\ disk[ret.out.old_filename] = PriorFileAtTarget
          /\ ret.out.filename \in DOMAIN disk => disk[ret.out.filename] = Garbage

\* C3 witness: a write that fails after the rename of a saved snapshot, and
\* leaves no file at the target path.
C3_Witness ==
    /\ Collided /\ ~RenameRefused /\ ret.out.raised # ""
    /\ PriorFileAtTarget.gen = 1
    /\ ret.out.filename \notin DOMAIN disk
    /\ disk[ret.out.old_filename].gen = 1

(***************************************************************************)
(* main                                                                    *)
(***************************************************************************)
\* f"{AUDIT_LOG_DIR}/{organization}_audit_{suffix}_{now:%Y%m%d}.csv"
load_filename(organization_name, suffix, now) ==
    AUDIT_LOG_DIR \o "/" \o organization_name \o "_audit_" \o suffix \o "_"
        \o strftime_Ymd(now) \o ".csv"

\* What main does once both files are loaded: both audits, then the report
\* or the save, as the button pressed asks.  An exception ends the run.
main_after_load(fs, g, now, organization_name, username, ui, button, os, env, loaded_data_27001, loaded_data_27002) ==
    LET a1 == conduct_audit(ISO_27001_CONTROLS, "ISO 27001", organization_name,
                            loaded_data_27001, username,
                            [k \in DOMAIN ISO_27001_CONTROLS |-> ui[k]])
        a2 == conduct_audit(ISO_27002_CONTROLS, "ISO 27002", organization_name,
                            loaded_data_27002, username,
                            [k \in DOMAIN ISO_27002_CONTROLS |->
                                ui[Len(ISO_27001_CONTROLS) + k]])
        combined_audit_data == a1.audit_data \o a2.audit_data
    IN IF a1.raised # "" \/ a2.raised # ""
       THEN [raised |-> "ValueError", audited |-> FALSE, audit_data |-> <<>>,
             report |-> <<>>, save |-> <<>>, disk |-> fs, gen |-> g]
       ELSE IF button = "Generate Report"
       THEN [raised |-> "", audited |-> TRUE, audit_data |-> combined_audit_data,
             report |-> <<generate_report(combined_audit_data, organization_name)>>,
             save |-> <<>>, disk |-> fs, gen |-> g]
       ELSE IF button = "Save Audit Log"
       THEN LET out == save_audit_log(fs, g, now, combined_audit_data,
                                      organization_name, os, env)
            IN [raised |-> out.raised, audited |-> TRUE,
                audit_data |-> combined_audit_data, report |-> <<>>,
                save |-> <<out>>, disk |-> out.disk, gen |-> out.gen]
       ELSE [raised |-> "", audited |-> TRUE, audit_data |-> combined_audit_data,
             report |-> <<>>, save |-> <<>>, disk |-> fs, gen |-> g]

\* main(): one run of the script.  Both prior logs are loaded; None from
\* either load is passed on to conduct_audit.
main(fs, g, now, organization_name, username, ui, button, os, env) ==
    LET filename_27001 == load_filename(organization_name, "27001", now)
        filename_27002 == load_filename(organization_name, "27002", now)
        l1 == load_audit_data(fs, filename_27001)
        l2 == load_audit_data(fs, filename_27002)
    IN [filename_27001 |-> filename_27001, filename_27002 |-> filename_27002,
        load_27001 |-> [raised |-> l1.raised, st_error |-> l1.st_error, t |-> l1.value.t],
        load_27002 |-> [raised |-> l2.raised, st_error |-> l2.st_error, t |-> l2.value.t],
        rest |-> IF l1.raised # "" \/ l2.raised # ""
                 THEN [raised |-> "EmptyDataError", audited |-> FALSE, audit_data |-> <<>>,
                       report |-> <<>>, save |-> <<>>, disk |-> fs, gen |-> g]
                 ELSE main_after_load(fs, g, now, organization_name, username, ui, button,
                                      os, env, l1.value, l2.value)]

(***************************************************************************)
(* SpecMain: the script run again and again as the clock runs              *)
(***************************************************************************)
MaxEdits == 1

MaxSessionSaves == 1

AllControls == ISO_27001_CONTROLS \o ISO_27002_CONTROLS

\* What the user enters in the widgets of a control they answer.
Answer == [compliance |-> <<"No">>, risk_level |-> <<"High">>,
           evidence |-> <<"note">>, remediation_plan |-> <<"fix">>]

\* The controls the user answers, if any: the first of each standard.
Answerable == {1, Len(ISO_27001_CONTROLS) + 1}

\* The user answers at most MaxEdits controls and leaves the rest as rendered.
UserInputs ==
    {[k \in DOMAIN AllControls |-> IF k \in E THEN Answer ELSE Untouched] :
        E \in {E \in SUBSET Answerable : Cardinality(E) <= MaxEdits}}

\* The prior logs found under the load paths of the first day: a log with
\* two records for A.5.1 (and none for ISO 27002); text that does not parse
\* and a log of ISO 27002 with a numeric control id; a log with a compliance
\* that is no option; a file with no header.
InitialDisks ==
    LET p1 == load_filename("Acme", "27001", 0)
        p2 == load_filename("Acme", "27002", 0)
    IN {WriteFile(EmptyDisk, p1, PriorFile(expected_columns, <<2, 1>>)),
        WriteFile(WriteFile(EmptyDisk, p1, Garbage), p2, PriorFile(expected_columns, <<5>>)),
        WriteFile(EmptyDisk, p1, PriorFile(expected_columns, <<3>>)),
        WriteFile(EmptyDisk, p2, CsvFile(<<>>, <<>>, 0))}

\* What the environment can do during a run: as for a call of
\* save_audit_log, a failing write leaving the target truncated.
SessionEnvironments(now, collision) ==
    {env \in Environments(now, collision) : env.write_error # "unopened"}

InitMain ==
    /\ arg = "Acme"
    /\ ret = Idle
    /\ clock = 0
    /\ disk \in InitialDisks
    /\ os_name = "posix"
    /\ gen = 0
    /\ calls = 0
    /\ session = Idle

\* What is kept of a run of main(): the files it looked for, what the loads
\* returned, the working set, the report, how the save ended.
RunRecord(out) ==
    [filename_27001 |-> out.filename_27001, filename_27002 |-> out.filename_27002,
     load_27001 |-> out.load_27001, load_27002 |-> out.load_27002,
     rest |-> [raised |-> out.rest.raised, audited |-> out.rest.audited,
               audit_data |-> out.rest.audit_data, report |-> out.rest.report,
               save |-> [k \in DOMAIN out.rest.save |->
                           [raised |-> out.rest.save[k].raised,
                            filename |-> out.rest.save[k].filename,
                            old_filename |-> out.rest.save[k].old_filename]]]]

\* One run of main(), whole: the user's entries and the button pressed are
\* its inputs.  snapshots is history: the files save_audit_log wrote that
\* are on disk when the run begins.
Main ==
    \E ui \in UserInputs :
    \E button \in {"", "Generate Report", "Save Audit Log"} :
    \E env \in SessionEnvironments(clock, save_filename(arg, clock) \in DOMAIN disk) :
       /\ button = "Save Audit Log" => calls < MaxSessionSaves
       /\ button # "Save Audit Log" =>
             env = [now2 |-> clock, rename_error |-> FALSE, write_error |-> ""]
       /\ \E out \in {main(disk, gen, clock, arg, "N/A", ui, button, os_name, env)} :
             /\ session' = [op |-> "main", now |-> clock, button |-> button,
                            snapshots |-> {p \in DOMAIN disk : disk[p].gen > 0},
                            out |-> RunRecord(out)]
             /\ disk' = out.rest.disk
             /\ gen' = out.rest.gen
             /\ calls' = IF out.rest.save # <<>> THEN calls + 1 ELSE calls
       /\ clock' = env.now2
       /\ UNCHANGED <<arg, ret, os_name>>

NextMain == Tick \/ Main

SpecMain == InitMain /\ [][NextMain]_vars

\* The last run found a file that does not parse under one of its load paths.
ParseErrorInRun ==
    /\ session.op = "main"
    /\ session.out.load_27001.st_error = "parse error"
       \/ session.out.load_27002.st_error = "parse error"

\* C4 as stated: a load that fails with a parse error stops the run: no
\* drafts are built from defaults, no report is made, nothing is saved.
C4_Original ==
    ParseErrorInRun =>
        /\ ~session.out.rest.audited
        /\ session.out.rest.audit_data = <<>>
        /\ session.out.rest.report = <<>>
        /\ session.out.rest.save = <<>>

\* The snapshots save_audit_log wrote for the organization on the day of the
\* last run, on disk when that run began.
SnapshotsOfToday ==
    {p \in session.snapshots :
        \E c \in 0..session.now :
           /\ strftime_Ymd(c) = strftime_Ymd(session.now)
           /\ p = save_filename(arg, c)}

\* C5 as stated: a run of the same day that follows a successful save loads
\* the snapshot that save wrote: one of its load paths is the path written.
C5_Original ==
    (session.op = "main" /\ SnapshotsOfToday # {}) =>
        \E q \in {session.out.filename_27001, session.out.filename_27002} :
            /\ q \in SnapshotsOfToday
            /\ "df" \in {session.out.load_27001.t, session.out.load_27002.t}

CountOf(records, value) ==
    Cardinality({i \in DOMAIN records : records[i]["Compliance"] = value})

=============================================================================
